---- MODULE Spec2Model ----
(***************************************************************************)
(* svgeditor: SvgImageSurface (src/unix.py) and its facade SVGSurface      *)
(* (src/surface.py).  A request is constructed once (extension checks,     *)
(* dimension resolution, library loading) and then serves save, tobytes    *)
(* and stride, each of which runs one render cycle against librsvg/cairo.  *)
(*                                                                         *)
(* The program is synchronous and single-threaded, so each handler is one  *)
(* action; the native and I/O calls a handler makes are recorded, in       *)
(* order, in `calls`, and the results the native side hands back are the   *)
(* action's nondeterministic inputs.                                       *)
(***************************************************************************)
EXTENDS Integers, Sequences, FiniteSets, TLC

VARIABLES
    args,     \* the constructor's arguments (from_file, to_file, save_bg, width, height)
    fs,       \* the file system: path -> text content
    self,     \* the SvgImageSurface object's fields (built: the constructor returned)
    op,       \* the last handler run: "none", "init", "save", "tobytes", "stride"
    outcome,  \* how it ended: [exc |-> name or NoExc, value |-> returned value,
              \*  status |-> the status an error message carries, or None]
    calls,    \* the I/O and native calls the last handler made, in order
    live,     \* native resources acquired and not released, per kind, over all handlers
    nops      \* number of public operations run so far

vars == <<args, fs, self, op, outcome, calls, live, nops>>

None == "None"
NoExc == "NoExc"

(***************************************************************************)
(* Text helpers.  Strings are Python str/bytes; positions are 1-based.     *)
(***************************************************************************)
Char(s, i) == SubSeq(s, i, i)

StartsAt(s, lit, i) ==
    /\ i >= 1
    /\ i + Len(lit) - 1 <= Len(s)
    /\ SubSeq(s, i, i + Len(lit) - 1) = lit

\* str.endswith
EndsWith(s, suf) ==
    /\ Len(s) >= Len(suf)
    /\ SubSeq(s, Len(s) - Len(suf) + 1, Len(s)) = suf

Digits == {"0", "1", "2", "3", "4", "5", "6", "7", "8", "9"}

\* the regex class [\d.]
IsNumChar(c) == c \in Digits \cup {"."}

\* the regex class \s
IsSpace(c) == c \in {" ", "\t", "\n", "\r", "\f"}

\* last position of the maximal run of [\d.] that starts at i (i - 1 when empty)
RECURSIVE NumRunEnd(_, _)
NumRunEnd(s, i) ==
    IF i <= Len(s) /\ IsNumChar(Char(s, i)) THEN NumRunEnd(s, i + 1) ELSE i - 1

\* last position of the maximal run of \s that starts at i (i - 1 when empty)
RECURSIVE SpaceRunEnd(_, _)
SpaceRunEnd(s, i) ==
    IF i <= Len(s) /\ IsSpace(Char(s, i)) THEN SpaceRunEnd(s, i + 1) ELSE i - 1

\* every character of s[a..b] differs from c: the regex classes [^>]* and [^"]*
NoCharIn(s, a, b, c) == \A k \in a..b : Char(s, k) # c

Positions(s, lit) == {i \in 1..Len(s) : StartsAt(s, lit, i)}

Max(S) == CHOOSE x \in S : \A y \in S : y <= x
Min(S) == CHOOSE x \in S : \A y \in S : x <= y

(***************************************************************************)
(* Numbers.  A Python float is kept exactly as num/den with den a power of *)
(* ten; an int n is n/1.                                                   *)
(***************************************************************************)
Num(n) == [num |-> n, den |-> 1]

\* None where a number is optional (den = 0 is no number)
NoNum == [num |-> 0, den |-> 0]

DigitValue(c) ==
    CASE c = "0" -> 0 [] c = "1" -> 1 [] c = "2" -> 2 [] c = "3" -> 3 [] c = "4" -> 4
      [] c = "5" -> 5 [] c = "6" -> 6 [] c = "7" -> 7 [] c = "8" -> 8 [] c = "9" -> 9

\* float(s) for s over [\d.]: the digits of s in base ten, scaled by the
\* digits after the point
RECURSIVE FloatDigits(_, _, _, _)
FloatDigits(s, i, acc, den) ==
    IF i > Len(s) THEN [num |-> acc, den |-> IF den = 0 THEN 1 ELSE den]
    ELSE IF Char(s, i) = "." THEN FloatDigits(s, i + 1, acc, 1)
    ELSE FloatDigits(s, i + 1, acc * 10 + DigitValue(Char(s, i)),
                     IF den = 0 THEN 0 ELSE den * 10)

\* float(s) raises ValueError
FloatFails(s) ==
    LET dots   == {i \in 1..Len(s) : Char(s, i) = "."}
        digits == {i \in 1..Len(s) : Char(s, i) \in Digits}
    IN  Cardinality(dots) > 1 \/ digits = {}

ParseFloat(s) == FloatDigits(s, 1, 0, 0)

\* int(x): truncation toward zero
IntOf(x) == IF x.num >= 0 THEN x.num \div x.den ELSE -((-x.num) \div x.den)

(***************************************************************************)
(* The three re.search patterns of _get_svg_dimensions.  re.search takes   *)
(* the leftmost start; a greedy class then takes the longest span that     *)
(* still lets the rest match.  A group [\d.]+ is always a maximal run,     *)
(* because what must follow it is never in the class.                      *)
(***************************************************************************)
\* a failed search (None); a match is the tuple of its groups
NoMatch == <<>>

\* <svg[^>]*NAME="([\d.]+)" : the positions k of NAME=" usable from start i
AttrAt(s, lit, i) ==
    {k \in Positions(s, lit) :
        /\ k >= i + 4
        /\ NoCharIn(s, i + 4, k - 1, ">")
        /\ LET p == k + Len(lit)
               e == NumRunEnd(s, p)
           IN  e >= p /\ StartsAt(s, "\"", e + 1)}

AttrSearch(s, name) ==
    LET lit    == name \o "=\""
        starts == {i \in Positions(s, "<svg") : AttrAt(s, lit, i) # {}}
    IN  IF starts = {} THEN NoMatch
        ELSE LET k == Max(AttrAt(s, lit, Min(starts)))
                 p == k + Len(lit)
             IN  <<SubSeq(s, p, NumRunEnd(s, p))>>

\* <svg[^>]*viewBox="[^"]*\s([\d.]+)\s([\d.]+)" : the positions a of the first \s
ViewBoxTailAt(s, p0) ==
    {a \in p0..Len(s) :
        /\ IsSpace(Char(s, a))
        /\ NoCharIn(s, p0, a - 1, "\"")
        /\ LET e1 == NumRunEnd(s, a + 1)
               e2 == NumRunEnd(s, e1 + 2)
           IN  /\ e1 >= a + 1
               /\ e1 + 1 <= Len(s) /\ IsSpace(Char(s, e1 + 1))
               /\ e2 >= e1 + 2
               /\ StartsAt(s, "\"", e2 + 1)}

ViewBoxAt(s, i) ==
    {k \in Positions(s, "viewBox=\"") :
        /\ k >= i + 4
        /\ NoCharIn(s, i + 4, k - 1, ">")
        /\ ViewBoxTailAt(s, k + 9) # {}}

ViewBoxSearch(s) ==
    LET starts == {i \in Positions(s, "<svg") : ViewBoxAt(s, i) # {}}
    IN  IF starts = {} THEN NoMatch
        ELSE LET k  == Max(ViewBoxAt(s, Min(starts)))
                 a  == Max(ViewBoxTailAt(s, k + 9))
                 e1 == NumRunEnd(s, a + 1)
             IN  <<SubSeq(s, a + 1, e1), SubSeq(s, e1 + 2, NumRunEnd(s, e1 + 2))>>

\* <svg[^>]*style="[^"]*width:\s*([\d.]+)px;[^"]*height:\s*([\d.]+)px;"
\* the positions b of height: usable after the width group ending at e1
StyleHeightAt(s, q0) ==
    {b \in Positions(s, "height:") :
        /\ b >= q0
        /\ NoCharIn(s, q0, b - 1, "\"")
        /\ LET r2 == SpaceRunEnd(s, b + 7) + 1
               e2 == NumRunEnd(s, r2)
           IN  e2 >= r2 /\ StartsAt(s, "px;\"", e2 + 1)}

\* the positions a of width: usable after style=" ending before p0
StyleWidthAt(s, p0) ==
    {a \in Positions(s, "width:") :
        /\ a >= p0
        /\ NoCharIn(s, p0, a - 1, "\"")
        /\ LET r1 == SpaceRunEnd(s, a + 6) + 1
               e1 == NumRunEnd(s, r1)
           IN  /\ e1 >= r1
               /\ StartsAt(s, "px;", e1 + 1)
               /\ StyleHeightAt(s, e1 + 4) # {}}

StyleAt(s, i) ==
    {k \in Positions(s, "style=\"") :
        /\ k >= i + 4
        /\ NoCharIn(s, i + 4, k - 1, ">")
        /\ StyleWidthAt(s, k + 7) # {}}

StyleSearch(s) ==
    LET starts == {i \in Positions(s, "<svg") : StyleAt(s, i) # {}}
    IN  IF starts = {} THEN NoMatch
        ELSE LET k  == Max(StyleAt(s, Min(starts)))
                 a  == Max(StyleWidthAt(s, k + 7))
                 r1 == SpaceRunEnd(s, a + 6) + 1
                 e1 == NumRunEnd(s, r1)
                 b  == Max(StyleHeightAt(s, e1 + 4))
                 r2 == SpaceRunEnd(s, b + 7) + 1
             IN  <<SubSeq(s, r1, e1), SubSeq(s, r2, NumRunEnd(s, r2))>>

(***************************************************************************)
(* Python values.                                                          *)
(***************************************************************************)
\* truthiness of an Optional[str]: None and "" are falsy
Truthy(s) == s # None /\ s # ""

\* a call made by a handler: the function, its arguments, its result
\* (a native pointer is 1, NULL is 0; a call with no result has 0)
Call(fn, a, r) == [fn |-> fn, args |-> a, res |-> r]

\* builtin open(path, 'r') followed by read(): the path must be in the file system
OpenFails(files, path) == path \notin DOMAIN files

(***************************************************************************)
(* SvgImageSurface._get_svg_dimensions: [exc, width, height, calls]        *)
(***************************************************************************)
Dims(w, h, c) == [exc |-> NoExc, width |-> w, height |-> h, calls |-> c]
DimsRaise(e, c) == [exc |-> e, width |-> NoNum, height |-> NoNum, calls |-> c]

\* lines 88-106: the regex cascade over the text read
ParseDimensions(content, c) ==
    LET width_match   == AttrSearch(content, "width")
        height_match  == AttrSearch(content, "height")
        viewbox_match == ViewBoxSearch(content)
        style_match   == StyleSearch(content)
        Floats(a, b)  == IF FloatFails(a) \/ FloatFails(b)
                         THEN DimsRaise("ValueError", c)
                         ELSE Dims(ParseFloat(a), ParseFloat(b), c)
    IN  IF width_match # NoMatch /\ height_match # NoMatch
            THEN Floats(width_match[1], height_match[1])
        ELSE IF viewbox_match # NoMatch
            THEN Floats(viewbox_match[1], viewbox_match[2])
        ELSE IF style_match # NoMatch
            THEN Floats(style_match[1], style_match[2])
        ELSE DimsRaise("SVGParseError", c)

\* GetSvgDimensions without the early return of lines 79-80
GetSvgDimensionsAlwaysRead(from_file, files, width, height) ==
    LET c == <<Call("open", <<from_file>>, IF OpenFails(files, from_file) THEN 0 ELSE 1)>>
    IN  IF OpenFails(files, from_file) THEN DimsRaise("SVGParseError", c)
        ELSE ParseDimensions(files[from_file], c)

\* GetSvgDimensions returning as soon as one of the two is given (line 79
\* with `or` for `and`)
GetSvgDimensionsKeepGiven(from_file, files, width, height) ==
    IF width # NoNum \/ height # NoNum THEN Dims(width, height, <<>>)
    ELSE LET c == <<Call("open", <<from_file>>, IF OpenFails(files, from_file) THEN 0 ELSE 1)>>
         IN  IF OpenFails(files, from_file) THEN DimsRaise("SVGParseError", c)
             ELSE ParseDimensions(files[from_file], c)

\* from_file is handed to open() whatever its type: an XmlGraphic is bytes,
\* and open() takes bytes as a path
GetSvgDimensions(from_file, files, width, height) ==
    IF width # NoNum /\ height # NoNum THEN Dims(width, height, <<>>)
    ELSE LET c == <<Call("open", <<from_file>>, IF OpenFails(files, from_file) THEN 0 ELSE 1)>>
         IN  IF OpenFails(files, from_file) THEN DimsRaise("SVGParseError", c)
             ELSE ParseDimensions(files[from_file], c)

(***************************************************************************)
(* SvgImageSurface.__init__: [exc, obj, calls].  libs is whether the two   *)
(* shared libraries can be loaded.                                         *)
(***************************************************************************)
Unbuilt ==
    [built |-> FALSE, from_file |-> "", xml |-> FALSE, to_file |-> None,
     save_bg |-> FALSE, width |-> NoNum, height |-> NoNum]

\* lines 108-133: CDLL raises OSError when a library cannot be loaded
LoadLibraries(libs) ==
    IF libs THEN [exc |-> NoExc, calls |-> <<Call("CDLL", <<"cairo">>, 1), Call("CDLL", <<"librsvg">>, 1)>>]
    ELSE [exc |-> "OSError", calls |-> <<Call("CDLL", <<"cairo">>, 0)>>]

\* ExtensionError without the source check of lines 61-62
ExtensionErrorDestinationOnly(a) ==
    ~a.xml /\ Truthy(a.to_file) /\ ~EndsWith(a.to_file, ".png")

\* lines 59-64
ExtensionError(a) ==
    /\ ~a.xml
    /\ \/ ~EndsWith(a.from_file, ".svg")
       \/ Truthy(a.to_file) /\ ~EndsWith(a.to_file, ".png")

Construct(a, files, libs) ==
    IF ExtensionError(a)
        THEN [exc |-> "InvalidFileExtensionError", obj |-> Unbuilt, calls |-> <<>>]
    ELSE LET d == GetSvgDimensions(a.from_file, files, a.width, a.height)
             l == LoadLibraries(libs)
         IN  IF d.exc # NoExc
                 THEN [exc |-> d.exc, obj |-> Unbuilt, calls |-> d.calls]
             ELSE IF l.exc # NoExc
                 THEN [exc |-> l.exc, obj |-> Unbuilt, calls |-> d.calls \o l.calls]
             ELSE [exc |-> NoExc,
                   obj |-> [built |-> TRUE, from_file |-> a.from_file, xml |-> a.xml,
                            to_file |-> a.to_file, save_bg |-> a.save_bg,
                            width |-> d.width, height |-> d.height],
                   calls |-> d.calls \o l.calls]

(***************************************************************************)
(* The render cycle.  nat is what the native side returns in this cycle:   *)
(* load, surf, ctx are the pointers returned (1, or 0 for NULL), render    *)
(* and enc the status codes.                                               *)
(***************************************************************************)
\* rsvg_handle_render_cairo returns TRUE (1) on success
RenderSuccess == 1
\* CAIRO_STATUS_SUCCESS
CairoStatusSuccess == 0
\* the surface formats of line 208
FormatWithNoBg == 0
FormatWithBg == 1

\* bs4.BeautifulSoup(xml, 'xml').find('svg'): an element named svg exists
HasSvgElement(s) ==
    \E i \in Positions(s, "<svg") :
        i + 4 <= Len(s) /\ (IsSpace(Char(s, i + 4)) \/ Char(s, i + 4) \in {">", "/"})

\* XmlGraphic.__init__: find('svg') gives None when the bytes hold no svg
\* element, and None.get('width') raises AttributeError
XmlGraphicFails(bytes) == ~HasSvgElement(bytes)

\* hex(status) of a status that is not negative
HexDigit(d) == Char("0123456789abcdef", d + 1)

RECURSIVE HexDigits(_)
HexDigits(n) == IF n < 16 THEN HexDigit(n) ELSE HexDigits(n \div 16) \o HexDigit(n % 16)

Hex(n) == "0x" \o HexDigits(n)

\* CleanupResources closing the handle first (lines 234-235 moved above
\* line 226)
CleanupResourcesHandleFirst(handle, context, surface) ==
    (IF handle # 0 THEN <<Call("rsvg_handle_close", <<"handle">>, 0)>> ELSE <<>>)
    \o (IF context # 0 THEN <<Call("cairo_destroy", <<"context">>, 0)>> ELSE <<>>)
    \o (IF surface # 0 THEN <<Call("cairo_surface_destroy", <<"surface">>, 0)>> ELSE <<>>)

\* CleanupResources without the rsvg_handle_close of lines 234-235
CleanupResourcesLeakHandle(handle, context, surface) ==
    (IF context # 0 THEN <<Call("cairo_destroy", <<"context">>, 0)>> ELSE <<>>)
    \o (IF surface # 0 THEN <<Call("cairo_surface_destroy", <<"surface">>, 0)>> ELSE <<>>)

\* lines 223-235: each resource is released if its pointer is truthy,
\* context first, then surface, then handle
CleanupResources(handle, context, surface) ==
    (IF context # 0 THEN <<Call("cairo_destroy", <<"context">>, 0)>> ELSE <<>>)
    \o (IF surface # 0 THEN <<Call("cairo_surface_destroy", <<"surface">>, 0)>> ELSE <<>>)
    \o (IF handle # 0 THEN <<Call("rsvg_handle_close", <<"handle">>, 0)>> ELSE <<>>)

Rendered(h, c, s, k) ==
    [exc |-> NoExc, status |-> None, handle |-> h, context |-> c, surface |-> s, calls |-> k]
RenderRaise(e, k) ==
    [exc |-> e, status |-> None, handle |-> 0, context |-> 0, surface |-> 0, calls |-> k]
\* line 219: CairoRenderError(f'Rendering failed with status: {hex(render_status)}')
RenderFailed(render_status, k) ==
    [RenderRaise("CairoRenderError", k) EXCEPT !.status = Hex(render_status)]

\* RenderOnto without the test of line 217
RenderOntoIgnoreStatus(obj, nat, loaded) ==
    LET surface_format == IF ~obj.save_bg THEN FormatWithNoBg ELSE FormatWithBg
        k == loaded
             \o <<Call("cairo_image_surface_create",
                       <<surface_format, IntOf(obj.width), IntOf(obj.height)>>, nat.surf),
                  Call("cairo_create", <<nat.surf>>, nat.ctx),
                  Call("rsvg_handle_render_cairo", <<nat.load, nat.ctx>>, nat.render)>>
    IN  Rendered(nat.load, nat.ctx, nat.surf, k)

\* RenderOnto with the two formats of line 208 exchanged
RenderOntoFormatSwapped(obj, nat, loaded) ==
    LET surface_format == IF obj.save_bg THEN FormatWithNoBg ELSE FormatWithBg
        k == loaded
             \o <<Call("cairo_image_surface_create",
                       <<surface_format, IntOf(obj.width), IntOf(obj.height)>>, nat.surf),
                  Call("cairo_create", <<nat.surf>>, nat.ctx),
                  Call("rsvg_handle_render_cairo", <<nat.load, nat.ctx>>, nat.render)>>
    IN  IF nat.render # RenderSuccess
            THEN RenderFailed(nat.render, k \o CleanupResources(nat.load, nat.ctx, nat.surf))
        ELSE Rendered(nat.load, nat.ctx, nat.surf, k)

\* RenderOnto raising on a failed render without the cleanup of line 218
RenderOntoNoCleanup(obj, nat, loaded) ==
    LET k == loaded
             \o <<Call("cairo_image_surface_create",
                       <<IF ~obj.save_bg THEN FormatWithNoBg ELSE FormatWithBg,
                         IntOf(obj.width), IntOf(obj.height)>>, nat.surf),
                  Call("cairo_create", <<nat.surf>>, nat.ctx),
                  Call("rsvg_handle_render_cairo", <<nat.load, nat.ctx>>, nat.render)>>
    IN  IF nat.render # RenderSuccess THEN RenderFailed(nat.render, k)
        ELSE Rendered(nat.load, nat.ctx, nat.surf, k)

\* lines 208-221, once the handle is loaded
RenderOnto(obj, nat, loaded) ==
    LET surface_format == IF ~obj.save_bg THEN FormatWithNoBg ELSE FormatWithBg
        k == loaded
             \o <<Call("cairo_image_surface_create",
                       <<surface_format, IntOf(obj.width), IntOf(obj.height)>>, nat.surf),
                  Call("cairo_create", <<nat.surf>>, nat.ctx),
                  Call("rsvg_handle_render_cairo", <<nat.load, nat.ctx>>, nat.render)>>
    IN  IF nat.render # RenderSuccess
            THEN RenderFailed(nat.render, k \o CleanupResources(nat.load, nat.ctx, nat.surf))
        ELSE Rendered(nat.load, nat.ctx, nat.surf, k)

\* lines 185-206: load the document, then render.  Line 190 builds
\* XmlGraphic(self.from_file) again, whose __init__ (lines 34-35) calls
\* .get on the result of find('svg'): with no svg element that is an
\* AttributeError, raised before the test of line 191 is reached
Render(obj, nat) ==
    IF obj.xml /\ XmlGraphicFails(obj.from_file)
        THEN RenderRaise("AttributeError", <<>>)
    ELSE LET loaded == <<Call(IF obj.xml THEN "rsvg_handle_new_from_data"
                                         ELSE "rsvg_handle_new_from_file",
                              <<obj.from_file>>, nat.load)>>
         IN  IF nat.load = 0
                 THEN RenderRaise("CairoRenderError",
                                  loaded \o <<Call("cairo_status_to_string", <<"error">>, 0)>>)
             ELSE RenderOnto(obj, nat, loaded)

Result(e, v, k) == [exc |-> e, value |-> v, status |-> None, calls |-> k]
\* an error raised by _render passes through the operation unchanged
Propagate(r) == [Result(r.exc, "None", r.calls) EXCEPT !.status = r.status]
\* lines 247 and 271: CairoRenderError(f'PNG write failed with status: {hex(status)}')
WriteFailed(status, k) == [Result("CairoRenderError", "None", k) EXCEPT !.status = Hex(status)]

\* lines 243-251 and 257-275: try: write, raise on a bad status; finally: cleanup
Encode(r, write, nat, value) ==
    LET k == r.calls \o <<Call(write, <<r.surface>>, nat.enc)>>
               \o CleanupResources(r.handle, r.context, r.surface)
    IN  IF nat.enc # CairoStatusSuccess THEN WriteFailed(nat.enc, k)
        ELSE Result(NoExc, value, k)

\* SaveResult testing the destination only after rendering (lines 239-240
\* moved below line 242)
SaveResultRenderFirst(obj, nat) ==
    LET r == Render(obj, nat)
    IN  IF r.exc # NoExc THEN Propagate(r)
        ELSE IF ~Truthy(obj.to_file)
            THEN Result("ValueError", "None",
                        r.calls \o CleanupResources(r.handle, r.context, r.surface))
        ELSE Encode(r, "cairo_surface_write_to_png", nat, "None")

\* SvgImageSurface._save
SaveResult(obj, nat) ==
    IF ~Truthy(obj.to_file) THEN Result("ValueError", "None", <<>>)
    ELSE LET r == Render(obj, nat)
         IN  IF r.exc # NoExc THEN Propagate(r)
             ELSE Encode(r, "cairo_surface_write_to_png", nat, "None")

\* SvgImageSurface._tobytes
ToBytesResult(obj, nat) ==
    LET r == Render(obj, nat)
    IN  IF r.exc # NoExc THEN Propagate(r)
        ELSE Encode(r, "cairo_surface_write_to_png_stream", nat, "bytes")

\* SvgImageSurface._stride
StrideResult(obj, nat) ==
    LET r == Render(obj, nat)
    IN  IF r.exc # NoExc THEN Propagate(r)
        ELSE Result(NoExc, "stride",
                    r.calls \o <<Call("cairo_image_surface_get_stride", <<r.surface>>, 0)>>)

(***************************************************************************)
(* Resource accounting over a handler's calls.                             *)
(***************************************************************************)
Kinds == {"handle", "surface", "context"}

AcquireFns(kind) ==
    CASE kind = "handle"  -> {"rsvg_handle_new_from_file", "rsvg_handle_new_from_data"}
      [] kind = "surface" -> {"cairo_image_surface_create"}
      [] kind = "context" -> {"cairo_create"}

ReleaseFn(kind) ==
    CASE kind = "handle"  -> "rsvg_handle_close"
      [] kind = "surface" -> "cairo_surface_destroy"
      [] kind = "context" -> "cairo_destroy"

\* positions in k where a resource of the kind is acquired (a non-NULL result)
Acquires(k, kind) == {i \in 1..Len(k) : k[i].fn \in AcquireFns(kind) /\ k[i].res # 0}
Releases(k, kind) == {i \in 1..Len(k) : k[i].fn = ReleaseFn(kind)}

LiveAfter(l, k) ==
    [kind \in Kinds |-> l[kind] + Cardinality(Acquires(k, kind)) - Cardinality(Releases(k, kind))]

(***************************************************************************)
(* The requests and documents explored.                                    *)
(***************************************************************************)
\* public operations run on one object
MaxOps == 2

\* the root element's width and height attribute values (None: no attribute)
AttrPairs ==
    {<<None, None>>, <<"100", None>>, <<None, "50">>, <<"100", "50">>,
     <<"100px", "50px">>, <<"1.5", "50">>, <<".", "50">>}
ViewBoxes == {None, "0 0 200 80"}
Styles == {None, "width: 64px; height: 32px;"}

Docs == [wh : AttrPairs, viewBox : ViewBoxes, style : Styles]

\* the documents rendered: the size reaches the render cycle only as
\* int(width), int(height), so three size outcomes are kept
RenderDocs ==
    {d \in Docs : /\ d.viewBox = None /\ d.style = None
                  /\ d.wh \in {<<None, None>>, <<"100", "50">>, <<"1.5", "50">>}}

Attr(name, v) == IF v = None THEN "" ELSE " " \o name \o "=\"" \o v \o "\""

\* the text of a document
Markup(d) ==
    "<svg" \o Attr("width", d.wh[1]) \o Attr("height", d.wh[2])
           \o Attr("viewBox", d.viewBox) \o Attr("style", d.style) \o "/>"

\* the files on disk: the document under a .svg and under a .txt name
Files(d) == ("in.svg" :> Markup(d)) @@ ("in.txt" :> Markup(d))

\* from_file: a path (existing, wrong extension, missing) or an XmlGraphic
\* bytes of a document without an svg element
NoSvgMarkup == "<html><p>svg</p></html>"

Sources(d) ==
    {[from_file |-> f, xml |-> FALSE] : f \in {"in.svg", "in.txt", "gone.svg"}}
    \cup {[from_file |-> Markup(d), xml |-> TRUE]}
    \cup {[from_file |-> NoSvgMarkup, xml |-> TRUE]}

Destinations == {None, "", "out.png", "out.jpg"}

ExplicitSizes ==
    {<<NoNum, NoNum>>, <<Num(30), NoNum>>, <<NoNum, Num(20)>>, <<Num(30), Num(20)>>,
     <<Num(0), Num(20)>>, <<Num(30), Num(-1)>>}

\* what the native calls of one cycle return; a call that is not made
\* (nothing after a failed load, no write after a failed render) returns 0
Natives ==
    {n \in [load : {0, 1}, surf : {0, 1}, ctx : {0, 1}, render : {0, 1}, enc : {0, 11}] :
        /\ n.load = 0 => (n.surf = 0 /\ n.ctx = 0 /\ n.render = 0)
        /\ n.render # RenderSuccess => n.enc = 0}

NoLive == [kind \in Kinds |-> 0]

\* the state before the constructor runs, for a document of D
InitWith(D) ==
    \E d \in D, t \in Destinations, bg \in BOOLEAN, wh \in ExplicitSizes :
      \E s \in Sources(d) :
        /\ args = [from_file |-> s.from_file, xml |-> s.xml, to_file |-> t,
                   save_bg |-> bg, width |-> wh[1], height |-> wh[2]]
        /\ fs = Files(d)
        /\ self = Unbuilt
        /\ op = "none"
        /\ outcome = [exc |-> NoExc, value |-> "None", status |-> None]
        /\ calls = <<>>
        /\ live = NoLive
        /\ nops = 0

\* SvgImageSurface(from_file, to_file, save_bg, width, height)
\* SVGSurface(XmlGraphic(bytes), ...) or SVGSurface(path, ...): the argument
\* is evaluated first, so a failing XmlGraphic(bytes) ends the call
NewSurface(a, files, libs) ==
    IF a.xml /\ XmlGraphicFails(a.from_file)
        THEN [exc |-> "AttributeError", obj |-> Unbuilt, calls |-> <<>>]
    ELSE Construct(a, files, libs)

New ==
    /\ op = "none"
    /\ \E libs \in BOOLEAN :
        \E r \in {NewSurface(args, fs, libs)} :
            /\ self' = r.obj
            /\ outcome' = [exc |-> r.exc, value |-> "None", status |-> None]
            /\ calls' = r.calls
    /\ op' = "init"
    /\ UNCHANGED <<args, fs, live, nops>>

\* one public operation on the constructed object
\* Operate with save() clearing the destination it has written to
OperateClearingDestination(name, r) ==
    /\ op' = name
    /\ outcome' = [exc |-> r.exc, value |-> r.value, status |-> r.status]
    /\ calls' = r.calls
    /\ live' = LiveAfter(live, r.calls)
    /\ nops' = nops + 1
    /\ self' = IF name = "save" THEN [self EXCEPT !.to_file = None] ELSE self
    /\ UNCHANGED <<args, fs>>

Operate(name, r) ==
    /\ op' = name
    /\ outcome' = [exc |-> r.exc, value |-> r.value, status |-> r.status]
    /\ calls' = r.calls
    /\ live' = LiveAfter(live, r.calls)
    /\ nops' = nops + 1
    /\ UNCHANGED <<args, fs, self>>

\* SVGSurface.save
Save ==
    /\ self.built /\ nops < MaxOps
    /\ \E nat \in Natives : \E r \in {SaveResult(self, nat)} : Operate("save", r)

\* SVGSurface.tobytes
ToBytes ==
    /\ self.built /\ nops < MaxOps
    /\ \E nat \in Natives : \E r \in {ToBytesResult(self, nat)} : Operate("tobytes", r)

\* SVGSurface.stride
Stride ==
    /\ self.built /\ nops < MaxOps
    /\ \E nat \in Natives : \E r \in {StrideResult(self, nat)} : Operate("stride", r)

Init == InitWith(RenderDocs)

Next == New \/ Save \/ ToBytes \/ Stride

\* construction followed by up to MaxOps public operations
Spec == Init /\ [][Next]_vars

\* construction alone, over every document
InitNew == InitWith(Docs)

SpecNew == InitNew /\ [][New]_vars

(***************************************************************************)
(* Properties.                                                             *)
(***************************************************************************)
PublicOp == op \in {"save", "tobytes", "stride"}
Raised == outcome.exc # NoExc
NoExplicitSize == args.width = NoNum /\ args.height = NoNum
ExplicitSize == args.width # NoNum /\ args.height # NoNum
Opens(k) == {i \in 1..Len(k) : k[i].fn = "open"}
Writes(k) ==
    {i \in 1..Len(k) :
        k[i].fn \in {"cairo_surface_write_to_png", "cairo_surface_write_to_png_stream"}}

\* the document on disk and in the XmlGraphic
DocOf == CHOOSE d \in Docs : Files(d) = fs

\* every resource acquired in k is released in k, once, after it was acquired,
\* and nothing is released that was not acquired
ReleasedOnce(k) ==
    \A kind \in Kinds :
        /\ Cardinality(Acquires(k, kind)) <= 1
        /\ Cardinality(Releases(k, kind)) = Cardinality(Acquires(k, kind))
        /\ \A r \in Releases(k, kind) : \E a \in Acquires(k, kind) : a < r

\* C1: a public operation that ends in an error has released, exactly once,
\* every native resource it acquired before the failure (load, allocation,
\* render or encode): none is left live and none is released twice.
C1_ReleasedOnFailure == (PublicOp /\ Raised) => ReleasedOnce(calls)

\* save fails at the PNG write with all three resources acquired
C1_Witness ==
    /\ op = "save" /\ outcome.exc = "CairoRenderError"
    /\ \E i \in Writes(calls) : calls[i].res # CairoStatusSuccess
    /\ \A kind \in Kinds : Acquires(calls, kind) # {} /\ Releases(calls, kind) # {}

\* C2: when stride() returns its value, the handle, surface and context it
\* acquired have been released, and no native resource is left live.
C2_StrideReleases ==
    (op = "stride" /\ ~Raised /\ \A kind \in Kinds : Acquires(calls, kind) # {})
        => (ReleasedOnce(calls) /\ live = NoLive)

\* the PNG write succeeds at e, every acquisition precedes it and every
\* release follows it
EncodedThenReleased(k) ==
    /\ ReleasedOnce(k)
    /\ \E e \in Writes(k) :
        /\ k[e].res = CairoStatusSuccess
        /\ \A kind \in Kinds :
            /\ \A a \in Acquires(k, kind) : a < e
            /\ \A r \in Releases(k, kind) : e < r

\* C3: a successful save() or tobytes() first completes the PNG encode and
\* then releases each resource of the cycle exactly once before it returns,
\* so it leaves the number of live native resources as it found it (zero
\* after any sequence of successful save/tobytes calls).
C3_EncodeThenRelease ==
    [][(op' \in {"save", "tobytes"} /\ outcome'.exc = NoExc)
          => (EncodedThenReleased(calls') /\ live' = live)]_vars

\* a second operation, tobytes, succeeds with all three resources released
C3_Witness ==
    /\ op = "tobytes" /\ ~Raised /\ nops = 2 /\ live = NoLive
    /\ outcome.value = "bytes"
    /\ \A kind \in Kinds : Cardinality(Releases(calls, kind)) = 1

\* C4: a destination not ending in .png is rejected at construction with
\* InvalidFileExtensionError before any library load or native call,
\* whether the source is a file path or an embedded document.  (Stated for
\* requests with explicit size, where no dimension error can come first.)
C4_DestinationRejected ==
    (/\ op = "init" /\ ExplicitSize /\ args.from_file # NoSvgMarkup
     /\ Truthy(args.to_file) /\ ~EndsWith(args.to_file, ".png"))
        => (outcome.exc = "InvalidFileExtensionError" /\ calls = <<>>)

\* C5: a file-path source not ending in .svg is rejected with
\* InvalidFileExtensionError before any file read, dimension resolution,
\* library load or native call, with or without explicit width and height.
C5_SourceRejectedBeforeIO ==
    (op = "init" /\ ~args.xml /\ ~EndsWith(args.from_file, ".svg"))
        => (outcome.exc = "InvalidFileExtensionError" /\ calls = <<>> /\ ~self.built)

\* an existing, parseable file with the wrong extension and no explicit size
C5_Witness ==
    /\ op = "init" /\ args.from_file = "in.txt" /\ NoExplicitSize
    /\ DocOf.wh = <<"100", "50">>
    /\ outcome.exc = "InvalidFileExtensionError"

\* C6: with width and height both given, dimension resolution returns
\* exactly those values and never reads the document, whatever the document
\* holds and whether or not it can be read.
C6_ExplicitSizeUnchanged ==
    (op = "init" /\ ExplicitSize)
        => /\ Opens(calls) = {}
           /\ outcome.exc \notin {"SVGParseError", "ValueError"}
           /\ self.built => (self.width = args.width /\ self.height = args.height)

\* an unreadable source is constructed with the explicit size
C6_Witness ==
    /\ op = "init" /\ self.built /\ args.from_file = "gone.svg"
    /\ self.width = Num(30) /\ self.height = Num(20)

\* the number a declared attribute value stands for: unit suffix stripped
StripUnit(v) == IF EndsWith(v, "px") THEN SubSeq(v, 1, Len(v) - 2) ELSE v

\* the size the precedence order gives a document (<<>>: none)
SignalSize(d) ==
    IF d.wh[1] # None /\ d.wh[2] # None
        THEN <<ParseFloat(StripUnit(d.wh[1])), ParseFloat(StripUnit(d.wh[2]))>>
    ELSE IF d.viewBox = "0 0 200 80" THEN <<Num(200), Num(80)>>
    ELSE IF d.style = "width: 64px; height: 32px;" THEN <<Num(64), Num(32)>>
    ELSE <<>>

\* the document reaches dimension resolution and its attributes are numbers
Resolvable ==
    /\ op = "init" /\ NoExplicitSize
    /\ (args.xml /\ args.from_file # NoSvgMarkup) \/ ~OpenFails(fs, args.from_file)
    /\ outcome.exc \notin {"InvalidFileExtensionError", "OSError"}
    /\ \A i \in 1..2 : DocOf.wh[i] = None \/ ~FloatFails(StripUnit(DocOf.wh[i]))

\* C7: without explicit size the result is the width+height attributes if
\* both are present, else the viewBox size, else the inline-style size, else
\* SVGParseError; a lower signal is never used when a higher one is present.
C7_StrictPrecedence ==
    Resolvable =>
        IF SignalSize(DocOf) = <<>> THEN outcome.exc = "SVGParseError"
        ELSE self.built /\ <<self.width, self.height>> = SignalSize(DocOf)

\* C8: a file whose root element has width="100px" height="50px", with no
\* explicit size, resolves to (100.0, 50.0).
C8_UnitSuffixedSize ==
    (Resolvable /\ ~args.xml /\ DocOf.wh = <<"100px", "50px">>)
        => (self.built /\ self.width = Num(100) /\ self.height = Num(50))

\* C9: whenever an operation has acquired a native resource, the resolved
\* width and height are both strictly positive.
C9_PositiveSizeBeforeAcquire ==
    (PublicOp /\ \E kind \in Kinds : Acquires(calls, kind) # {})
        => (self.width.num > 0 /\ self.height.num > 0)

\* C10: an embedded document with no explicit size whose root element
\* declares width and height resolves to the declared values, read from the
\* in-memory markup with no file opened.
C10_EmbeddedDeclaredSize ==
    (Resolvable /\ args.xml /\ DocOf.wh = <<"100", "50">>)
        => /\ self.built /\ self.width = Num(100) /\ self.height = Num(50)
           /\ Opens(calls) = {}

FnCalls(k, fn) == {i \in 1..Len(k) : k[i].fn = fn}

\* C11: when creating the surface or the context fails (NULL), the
\* operation ends in an error, the native render call is not made, and
\* whatever was acquired is released.
C11_AllocationFailureRaises ==
    (PublicOp /\ \E i \in 1..Len(calls) :
                    /\ calls[i].fn \in {"cairo_image_surface_create", "cairo_create"}
                    /\ calls[i].res = 0)
        => /\ Raised
           /\ FnCalls(calls, "rsvg_handle_render_cairo") = {}
           /\ ReleasedOnce(calls)

\* C12: save() on a request with no destination fails with ValueError
\* before anything is acquired: no load, surface, context, render or write
\* call is made.
C12_SaveNeedsDestination ==
    (op = "save" /\ ~Truthy(self.to_file))
        => (outcome.exc = "ValueError" /\ calls = <<>>)

\* save on an object built from a readable file with no destination
C12_Witness ==
    /\ op = "save" /\ self.built /\ self.to_file = None
    /\ self.from_file = "in.svg" /\ outcome.exc = "ValueError"

\* C13: for embedded bytes without an svg element the call fails with
\* SurfaceXmlRenderingFormatError, and no native loader call is made.
C13_MalformedDocumentError ==
    (op # "none" /\ args.xml /\ ~HasSvgElement(args.from_file))
        => /\ outcome.exc = "SurfaceXmlRenderingFormatError"
           /\ \A i \in 1..Len(calls) : calls[i].fn \notin AcquireFns("handle")

\* position of each kind in the release order of _cleanup_resources
ReleaseRank(fn) ==
    CASE fn = "cairo_destroy" -> 1
      [] fn = "cairo_surface_destroy" -> 2
      [] fn = "rsvg_handle_close" -> 3

ReleaseCalls(k) == UNION {Releases(k, kind) : kind \in Kinds}

\* C14: whenever an operation releases the resources of its cycle, on
\* success or on any failure, the context is released first, then the
\* surface, then the handle.
C14_ReleaseOrder ==
    PublicOp =>
        \A i, j \in ReleaseCalls(calls) :
            i < j => ReleaseRank(calls[i].fn) < ReleaseRank(calls[j].fn)

\* a failed PNG write after which all three resources were released
C14_Witness ==
    /\ op = "save" /\ Raised /\ Writes(calls) # {}
    /\ \A kind \in Kinds : Releases(calls, kind) # {}

FailedRenders(k) ==
    {i \in FnCalls(k, "rsvg_handle_render_cairo") : k[i].res # RenderSuccess}

\* C15: when the native render call returns a status other than success,
\* the operation ends in CairoRenderError carrying that status, and no
\* write-to-file, write-to-stream or stride read is made.
C15_FailedRenderAborts ==
    PublicOp =>
        \A i \in FailedRenders(calls) :
            /\ outcome.exc = "CairoRenderError"
            /\ outcome.status = Hex(calls[i].res)
            /\ Writes(calls) = {}
            /\ FnCalls(calls, "cairo_image_surface_get_stride") = {}

\* stride() whose render call reported failure with all resources created
C15_Witness ==
    /\ op = "stride" /\ FailedRenders(calls) # {}
    /\ \A kind \in Kinds : Acquires(calls, kind) # {}
    /\ outcome.status = "0x0"

\* the resource of a kind is live at call i: acquired before, not yet released
LiveAt(k, kind, i) ==
    /\ \E a \in Acquires(k, kind) : a < i
    /\ \A r \in Releases(k, kind) : i < r

\* C16: the render call is made only while the handle, the surface and
\* the context of the cycle are all acquired and not released; every
\* write-to-file, write-to-stream and stride read is made only on a surface
\* that has been rendered and not released.
C16_OnlyLiveResources ==
    PublicOp =>
        /\ \A i \in FnCalls(calls, "rsvg_handle_render_cairo") :
              \A kind \in Kinds : LiveAt(calls, kind, i)
        /\ \A i \in Writes(calls) \cup FnCalls(calls, "cairo_image_surface_get_stride") :
              /\ LiveAt(calls, "surface", i)
              /\ \E j \in FnCalls(calls, "rsvg_handle_render_cairo") :
                    j < i /\ calls[j].res = RenderSuccess

SurfaceCreations(k) == FnCalls(k, "cairo_image_surface_create")

\* C17: the format given to the surface creation depends on save_bg
\* alone: 0 (ARGB32) when the background is not kept, 1 (RGB24) when it is,
\* in every operation.
C17_FormatFromSaveBg ==
    PublicOp =>
        \A i \in SurfaceCreations(calls) :
            calls[i].args[1] = IF self.save_bg THEN 1 ELSE 0

\* tobytes() that returned bytes from a surface created with format 1
C17_Witness ==
    /\ op = "tobytes" /\ ~Raised /\ self.save_bg
    /\ \E i \in SurfaceCreations(calls) : calls[i].args[1] = 1

OneSidedSize == (args.width = NoNum) # (args.height = NoNum)

\* C18: with exactly one of width and height given, the given value is not
\* used: the document is read and both dimensions are what it declares, and
\* when it cannot be read or declares nothing the construction fails.
C18_OneSidedSizeDiscarded ==
    (/\ op = "init" /\ OneSidedSize /\ args.from_file # NoSvgMarkup
     /\ outcome.exc \notin {"InvalidFileExtensionError", "OSError"})
        => /\ Opens(calls) # {}
           /\ IF OpenFails(fs, args.from_file)
                  THEN outcome.exc = "SVGParseError" /\ ~self.built
              ELSE LET d == ParseDimensions(fs[args.from_file], <<>>)
                   IN  IF d.exc # NoExc THEN outcome.exc = d.exc /\ ~self.built
                       ELSE /\ self.built
                            /\ self.width = d.width /\ self.height = d.height

\* a width of 30 alone, replaced by the 100 x 50 the file declares
C18_Witness ==
    /\ op = "init" /\ args.width = Num(30) /\ args.height = NoNum
    /\ self.built /\ self.width = Num(100) /\ self.height = Num(50)

\* C19: no public operation, whether it succeeds or fails, changes the
\* source, destination, save_bg, width or height the object was built with.
C19_RequestUnchanged == [][self.built => (self' = self /\ args' = args)]_vars

\* a second operation has ended in an error on a built object
C19_Witness == self.built /\ nops = 2 /\ PublicOp /\ Raised /\ calls # <<>>

====
